---- MODULE Spec2Model ----
(***************************************************************************)
(* PaperBot: the fetch / archive / upsert cycle of the GUI                 *)
(* (src/paperbot/gui/app.py), the curation and export handlers, and the    *)
(* OpenAlex abstract decoder (src/as.py).                                  *)
(*                                                                         *)
(* PaperRepository and FeedService are imported by app.py but their        *)
(* sources are not part of src/; their operations are modelled from the    *)
(* specification (sections 4.3-4.5, 5) and are marked as such below.       *)
(***************************************************************************)
EXTENDS Integers, Sequences, FiniteSets, TLC

(* ------------------------------ bounds --------------------------------- *)

\* Number of configured feed sources.
NumSources == 2

\* Number of fetch requests that are accepted in one run of the model.
MaxCycles == 2

\* Largest value of the export clock.
MaxTime == 1

\* Largest os.cpu_count() for which the worker bound is evaluated.
MaxCpu == 12

\* Positions of an inverted index: 0..MaxPos.
MaxPos == 2

\* Longest position list of one word.
MaxPosLen == 2

\* Most space-separated chunks of a title.
MaxChunks == 4

\* Length of the long word of a title.
LongLen == 21

\* Most records handed to one export.
MaxExport == 2

\* Readings of the clock (days).
MaxClock == 2

(* ------------------------------ values --------------------------------- *)

None == "None"

Sources == 1..NumSources

Cycles == 1..MaxCycles

\* Candidate records produced by the feed parser: doi (optional) and link.
Candidates ==
  { [doi |-> "d1", link |-> "a"],
    [doi |-> "d1", link |-> "b"],
    [doi |-> None, link |-> "a"] }

\* The entries a source's feed holds when its request succeeds.
FeedOf(s) ==
  IF s % 2 = 1
    THEN << [doi |-> "d1", link |-> "a"] >>
    ELSE << [doi |-> None, link |-> "a"], [doi |-> "d1", link |-> "b"] >>

\* Values of os.cpu_count(): 0 stands for None (unknown), else a positive count.
CpuCounts == {0, 1, 3}

VARIABLES
  papers,        \* the store: sequence of records, id = index
  fetch_status,  \* AppState.fetch_status
  nextCycle,     \* number of fetch requests accepted so far
  cyc,           \* per accepted request: the position and locals of _do_fetch
  src,           \* per cycle and source: the state of its fetch in the pool
  written,       \* per cycle: the ids its upserts have written
  buffer,        \* per cycle: candidates of completed fetches, not yet consumed
  yielded,       \* per cycle: the candidates the consumer has been handed
  req,           \* the request handler in progress on the event loop
  exited,        \* the process has run its exit hook
  dec,           \* get_paper_info: the response it is given and what it returns
  exp            \* export_service: the call in progress and what it returns

appvars == << papers, fetch_status, nextCycle, cyc, src, written, buffer, yielded,
              req, exited >>

vars == << appvars, dec, exp >>

(* ------------------- PaperRepository (from the spec) ------------------- *)

\* Identity: doi when present, else link.
Identity(p) == IF p.doi # None THEN p.doi ELSE p.link

FindByIdentity(ps, k) == { i \in DOMAIN ps : Identity(ps[i]) = k }

NewPaper(cand) ==
  [ doi |-> cand.doi, link |-> cand.link, status |-> "new", is_picked |-> FALSE,
    exported_at |-> 0 ]

\* Merge of a candidate into the record of the same identity.
Merge(p, cand, resurface) ==
  [ p EXCEPT !.doi = cand.doi, !.link = cand.link,
             !.status = IF p.status = "archived" /\ resurface THEN "new" ELSE @ ]

\* upsert(record) -> bool, with the store after it.
UpsertAlwaysInsert(ps, cand, resurface) ==
  [ papers |-> Append(ps, NewPaper(cand)), inserted |-> TRUE, id |-> Len(ps) + 1 ]

Upsert(ps, cand, resurface) ==
  LET hit == FindByIdentity(ps, Identity(cand)) IN
  IF hit = {}
    THEN [ papers |-> Append(ps, NewPaper(cand)), inserted |-> TRUE, id |-> Len(ps) + 1 ]
    ELSE LET i == CHOOSE j \in hit : TRUE IN
         [ papers |-> [ ps EXCEPT ![i] = Merge(@, cand, resurface) ],
           inserted |-> FALSE, id |-> i ]

\* archiveOldNew() -> count, with the store after it. The call carries no
\* argument: every record that is new when the sweep runs precedes the invocation.
ArchiveOldNewSkipsPicked(ps) ==
  [ papers |-> [ i \in DOMAIN ps |->
                   IF ps[i].status = "new" /\ ~ps[i].is_picked
                     THEN [ ps[i] EXCEPT !.status = "archived" ] ELSE ps[i] ],
    count |-> Cardinality({ i \in DOMAIN ps : ps[i].status = "new" /\ ~ps[i].is_picked }) ]

ArchiveOldNewUnpicks(ps) ==
  [ papers |-> [ i \in DOMAIN ps |->
                   IF ps[i].status = "new"
                     THEN [ ps[i] EXCEPT !.status = "archived", !.is_picked = FALSE ]
                     ELSE ps[i] ],
    count |-> Cardinality({ i \in DOMAIN ps : ps[i].status = "new" }) ]

ArchiveOldNew(ps) ==
  [ papers |-> [ i \in DOMAIN ps |->
                   IF ps[i].status = "new"
                     THEN [ ps[i] EXCEPT !.status = "archived" ] ELSE ps[i] ],
    count |-> Cardinality({ i \in DOMAIN ps : ps[i].status = "new" }) ]

\* pick(ids) / unpick(ids): set / clear is_picked; unknown ids are ignored.
SetPicked(ps, ids, v) ==
  [ i \in DOMAIN ps |-> IF i \in ids THEN [ ps[i] EXCEPT !.is_picked = v ] ELSE ps[i] ]

Pick(ps, ids) == SetPicked(ps, ids, TRUE)

Unpick(ps, ids) == SetPicked(ps, ids, FALSE)

\* markExported(ids): stamp exported_at with the current time.
MarkExported(ps, ids, t) ==
  [ i \in DOMAIN ps |-> IF i \in ids THEN [ ps[i] EXCEPT !.exported_at = t ] ELSE ps[i] ]

\* resetAllPicked(): clear is_picked of every record.
ResetAllPicked(ps) == [ i \in DOMAIN ps |-> [ ps[i] EXCEPT !.is_picked = FALSE ] ]

\* findPicked(): the ids of the picked records.
FindPicked(ps) == { i \in DOMAIN ps : ps[i].is_picked }

\* findAll(limit): the ids returned, at most limit of them; which records a
\* full listing leaves out is open in the spec, here the oldest ids.
FindAll(ps, limit) == { i \in DOMAIN ps : i > Len(ps) - limit }

(* ------------------------------ _do_fetch ------------------------------- *)

\* workers = max(1, min(8, (os.cpu_count() or 2) - 1))
Min(a, b) == IF a < b THEN a ELSE b

Max(a, b) == IF a > b THEN a ELSE b

\* (x or 2): a falsy x (None, 0) gives 2.
OrTwo(n) == IF n = 0 THEN 2 ELSE n

WorkerBoundNoFloor(n) == Min(8, OrTwo(n) - 1)

WorkerBound(n) == Max(1, Min(8, OrTwo(n) - 1))

\* base is no local of the code: it records the size of the store when the
\* cycle's sweep returned.
IdleCycle == [ pc |-> "unused", archived |-> 0, total_new |-> 0, total_processed |-> 0,
               workers |-> 0, archive_calls |-> 0, raised |-> FALSE, base |-> 0 ]

StatusIdle == [ running |-> FALSE, message |-> "", complete |-> FALSE,
                new |-> 0, processed |-> 0, archived |-> 0 ]

StatusRunning(m) == [ running |-> TRUE, message |-> m, complete |-> FALSE,
                      new |-> 0, processed |-> 0, archived |-> 0 ]

\* A summary with the two counts exchanged.
StatusSummarySwapped(n, p, a) ==
  [ running |-> FALSE, message |-> "summary", complete |-> TRUE,
    new |-> p, processed |-> n, archived |-> a ]

StatusSummary(n, p, a) == [ running |-> FALSE, message |-> "summary", complete |-> TRUE,
                            new |-> n, processed |-> p, archived |-> a ]

\* An except clause that leaves the running flag set.
StatusErrorStillRunning == [ running |-> TRUE, message |-> "error", complete |-> TRUE,
                             new |-> 0, processed |-> 0, archived |-> 0 ]

StatusError == [ running |-> FALSE, message |-> "error", complete |-> TRUE,
                 new |-> 0, processed |-> 0, archived |-> 0 ]

Init ==
  /\ papers = << >>
  /\ fetch_status = StatusIdle
  /\ nextCycle = 0
  /\ cyc = [ c \in Cycles |-> IdleCycle ]
  /\ src = [ c \in Cycles |-> [ s \in Sources |-> "idle" ] ]
  /\ written = [ c \in Cycles |-> {} ]
  /\ buffer = [ c \in Cycles |-> << >> ]
  /\ yielded = [ c \in Cycles |-> << >> ]
  /\ req = [ op |-> "none" ]
  /\ exited = FALSE
  /\ dec = [ pc |-> "idle" ]
  /\ exp = [ pc |-> "idle" ]

(* --------------------- FeedService.fetch_all (from the spec) ------------ *)

Active(c) == { s \in Sources : src[c][s] = "active" }

\* A queued source starts when a worker slot is free.
SlotFree(c) == Cardinality(Active(c)) < cyc[c].workers

SourceStart(c, s) ==
  /\ ~exited
  /\ UNCHANGED << dec, exp >>
  /\ cyc[c].pc = "loop"
  /\ src[c][s] = "queued"
  /\ SlotFree(c)
  /\ src' = [ src EXCEPT ![c][s] = "active" ]
  /\ UNCHANGED << papers, fetch_status, nextCycle, cyc, written, buffer, yielded,
                  req, exited >>

\* A fetch completes: its entries join the output in arrival order.
SourceOk(c, s) ==
  /\ ~exited
  /\ UNCHANGED << dec, exp >>
  /\ cyc[c].pc = "loop"
  /\ src[c][s] = "active"
  /\ buffer' = [ buffer EXCEPT ![c] = @ \o FeedOf(s) ]
  /\ src' = [ src EXCEPT ![c][s] = "ok" ]
  /\ UNCHANGED << papers, fetch_status, nextCycle, cyc, written, yielded, req, exited >>

\* A fetch fails: it yields nothing, the other sources are not affected.
AfterFailureCancel(c, s) ==
  [ t \in Sources |-> IF t = s THEN "failed"
                      ELSE IF src[c][t] = "queued" THEN "cancelled" ELSE src[c][t] ]

AfterFailure(c, s) == [ src[c] EXCEPT ![s] = "failed" ]

SourceFail(c, s) ==
  /\ ~exited
  /\ UNCHANGED << dec, exp >>
  /\ cyc[c].pc = "loop"
  /\ src[c][s] = "active"
  /\ src' = [ src EXCEPT ![c] = AfterFailure(c, s) ]
  /\ UNCHANGED << papers, fetch_status, nextCycle, cyc, written, buffer, yielded,
                  req, exited >>

\* The stream is exhausted: every source was attempted and all output consumed.
Exhausted(c) ==
  /\ \A s \in Sources : src[c][s] \in {"ok", "failed"}
  /\ buffer[c] = << >>

(* ------------------------------ _do_fetch steps ------------------------- *)

\* The locals of a finished _do_fetch.
Finished(c) == [ cyc[c] EXCEPT !.pc = "done", !.archived = 0, !.total_new = 0,
                               !.total_processed = 0, !.workers = 0,
                               !.raised = FALSE, !.base = 0 ]

\* A repository call raised inside the try block: control leaves the loop for
\* the except clause of line 211.
RaiseSwallowed(c) == [ cyc[c] EXCEPT !.raised = TRUE ]

Raise(c) == [ cyc[c] EXCEPT !.pc = "except", !.archived = 0, !.total_new = 0,
                            !.total_processed = 0, !.workers = 0, !.raised = TRUE,
                            !.base = 0 ]

\* The pool of an abandoned cycle: what its fetches still return is discarded.
Abandon(c) == [ s \in Sources |-> "idle" ]

\* fetch_papers: a request while a cycle runs schedules nothing.
AcceptsWhileRunning == TRUE

Accepts == ~fetch_status.running

FetchPapers ==
  /\ ~exited
  /\ UNCHANGED << dec, exp >>
  /\ req.op = "none"
  /\ \/ /\ ~Accepts
        /\ UNCHANGED vars
     \/ /\ Accepts
        /\ nextCycle < MaxCycles
        /\ nextCycle' = nextCycle + 1
        /\ cyc' = [ cyc EXCEPT ![nextCycle + 1].pc = "scheduled" ]
        /\ fetch_status' = StatusRunning("starting")
        /\ UNCHANGED << papers, src, written, buffer, yielded, req, exited >>

\* _do_fetch with the sweep left out: the loop starts right away.
DoFetchBeginNoSweep(c) ==
  /\ ~exited
  /\ UNCHANGED << dec, exp >>
  /\ cyc[c].pc = "scheduled"
  /\ \E n \in CpuCounts :
       cyc' = [ cyc EXCEPT ![c].pc = "loop", ![c].workers = WorkerBound(n) ]
  /\ src' = [ src EXCEPT ![c] = [ s \in Sources |-> "queued" ] ]
  /\ fetch_status' = StatusRunning("collecting")
  /\ UNCHANGED << papers, nextCycle, written, buffer, yielded, req, exited >>

\* _do_fetch, line 192.
DoFetchBegin(c) ==
  /\ ~exited
  /\ UNCHANGED << dec, exp >>
  /\ cyc[c].pc = "scheduled"
  /\ cyc' = [ cyc EXCEPT ![c].pc = "archive" ]
  /\ fetch_status' = StatusRunning("collecting")
  /\ UNCHANGED << papers, nextCycle, src, written, buffer, yielded, req, exited >>

\* _do_fetch, lines 195-201: the sweep, the worker bound, the call of fetch_all.
DoFetchArchive(c) ==
  /\ ~exited
  /\ UNCHANGED << dec, exp >>
  /\ cyc[c].pc = "archive"
  /\ \E fault \in BOOLEAN, n \in CpuCounts :
       IF fault
         THEN /\ cyc' = [ cyc EXCEPT ![c] = [ Raise(c) EXCEPT
                                               !.archive_calls = @ + 1 ] ]
              /\ UNCHANGED << papers, src, fetch_status >>
         ELSE LET r == ArchiveOldNew(papers) IN
              /\ papers' = r.papers
              /\ cyc' = [ cyc EXCEPT ![c].pc = "loop", ![c].archived = r.count,
                                     ![c].workers = WorkerBound(n),
                                     ![c].archive_calls = @ + 1,
                                     ![c].base = Len(papers) ]
              /\ src' = [ src EXCEPT ![c] = [ s \in Sources |-> "queued" ] ]
              /\ UNCHANGED fetch_status
  /\ UNCHANGED << nextCycle, written, buffer, yielded, req, exited >>

\* _do_fetch, lines 201-204: one iteration of the loop over fetch_all.
DoFetchUpsert(c) ==
  /\ ~exited
  /\ UNCHANGED << dec, exp >>
  /\ cyc[c].pc = "loop"
  /\ buffer[c] # << >>
  /\ \E fault \in BOOLEAN :
       LET cand == Head(buffer[c]) IN
       IF fault
         THEN /\ cyc' = [ cyc EXCEPT ![c] = Raise(c) ]
              /\ src' = [ src EXCEPT ![c] = Abandon(c) ]
              /\ written' = [ written EXCEPT ![c] = {} ]
              /\ buffer' = [ buffer EXCEPT ![c] = << >> ]
              /\ yielded' = [ yielded EXCEPT ![c] = << >> ]
              /\ UNCHANGED << papers, fetch_status >>
         ELSE \E resurface \in BOOLEAN :
              LET r == Upsert(papers, cand, resurface) IN
              /\ papers' = r.papers
              /\ cyc' = [ cyc EXCEPT
                            ![c].total_new = IF r.inserted THEN @ + 1 ELSE @,
                            ![c].total_processed = @ + 1 ]
              /\ buffer' = [ buffer EXCEPT ![c] = Tail(@) ]
              /\ yielded' = [ yielded EXCEPT ![c] = Append(@, cand) ]
              /\ written' = [ written EXCEPT ![c] = @ \cup {r.id} ]
              /\ UNCHANGED << fetch_status, src >>
  /\ UNCHANGED << nextCycle, req, exited >>

\* _do_fetch, lines 211-212: the except clause publishes the error.
DoFetchExcept(c) ==
  /\ ~exited
  /\ UNCHANGED << dec, exp >>
  /\ cyc[c].pc = "except"
  /\ fetch_status' = StatusError
  /\ cyc' = [ cyc EXCEPT ![c] = Finished(c) ]
  /\ UNCHANGED << papers, nextCycle, src, written, buffer, yielded, req, exited >>

\* _do_fetch, lines 206-210: the loop has ended, the summary is published.
DoFetchFinish(c) ==
  /\ ~exited
  /\ UNCHANGED << dec, exp >>
  /\ cyc[c].pc = "loop"
  /\ Exhausted(c)
  /\ fetch_status' = StatusSummary(cyc[c].total_new, cyc[c].total_processed,
                                   cyc[c].archived)
  /\ cyc' = [ cyc EXCEPT ![c] = Finished(c) ]
  /\ src' = [ src EXCEPT ![c] = [ s \in Sources |-> "idle" ] ]
  /\ written' = [ written EXCEPT ![c] = {} ]
  /\ yielded' = [ yielded EXCEPT ![c] = << >> ]
  /\ UNCHANGED << papers, nextCycle, buffer, req, exited >>

(* --------------------------- request handlers --------------------------- *)

\* Paper ids a request may name: the stored ids and one unknown id.
Ids == 1..(Len(papers) + 1)

\* The id lists of a pick-all / unpick-all form: empty, one id, or all of them.
IdLists == {{}, Ids} \cup { {i} : i \in Ids }

\* pick_paper, lines 276-277: look the paper up.
PickPaperRead(id) ==
  /\ ~exited
  /\ UNCHANGED << dec, exp >>
  /\ req.op = "none"
  /\ LET found == id \in FindAll(papers, 10000) IN
     req' = [ op |-> "pick", id |-> id, found |-> found,
              was |-> found /\ papers[id].is_picked ]
  /\ UNCHANGED << papers, fetch_status, nextCycle, cyc, src, written, buffer,
                  yielded, exited >>

\* A handler that picks whatever it found.
PickToggleAlwaysPicks(ps, id, found, was) ==
  IF found THEN Pick(ps, {id}) ELSE ps

\* pick_paper, lines 279-283: unpick a paper found picked, pick one found
\* unpicked, do nothing when none was found.
PickToggle(ps, id, found, was) ==
  IF found
    THEN IF was THEN Unpick(ps, {id}) ELSE Pick(ps, {id})
    ELSE ps

\* pick_paper, line 286: the checked state of the returned checkbox.
NewPicked == IF req.found THEN ~req.was ELSE FALSE

\* pick_paper, lines 279-294: toggle it.
PickPaperWrite ==
  /\ ~exited
  /\ UNCHANGED << dec, exp >>
  /\ req.op = "pick"
  /\ papers' = PickToggle(papers, req.id, req.found, req.was)
  /\ req' = [ op |-> "none" ]
  /\ UNCHANGED << fetch_status, nextCycle, cyc, src, written, buffer, yielded,
                  exited >>

\* pick_all, lines 297-306.
PickAll(ids) ==
  /\ ~exited
  /\ UNCHANGED << dec, exp >>
  /\ req.op = "none"
  /\ papers' = IF ids # {} THEN Pick(papers, ids) ELSE papers
  /\ UNCHANGED << fetch_status, nextCycle, cyc, src, written, buffer, yielded,
                  req, exited >>

\* unpick_all, lines 309-318.
UnpickAll(ids) ==
  /\ ~exited
  /\ UNCHANGED << dec, exp >>
  /\ req.op = "none"
  /\ papers' = IF ids # {} THEN Unpick(papers, ids) ELSE papers
  /\ UNCHANGED << fetch_status, nextCycle, cyc, src, written, buffer, yielded,
                  req, exited >>

\* export_picked, lines 245-252: read the picked papers; none: nothing to do.
ExportRead ==
  /\ ~exited
  /\ UNCHANGED << dec, exp >>
  /\ req.op = "none"
  /\ req' = IF FindPicked(papers) = {} THEN req
            ELSE [ op |-> "export", ids |-> FindPicked(papers) ]
  /\ UNCHANGED << papers, fetch_status, nextCycle, cyc, src, written, buffer,
                  yielded, exited >>

\* The clock never runs backwards: it reads at least the latest stamp it gave.
Now == LET S == { papers[i].exported_at : i \in DOMAIN papers } IN
       IF S = {} THEN 0 ELSE CHOOSE m \in S : \A x \in S : x <= m

\* export_picked, line 255: the exporter writes the file, or raises.
AfterExportIgnoringFailure(ok) ==
  [ op |-> "mark", ids |-> req.ids, filepath |-> IF ok THEN "file" ELSE None ]

AfterExport(ok) ==
  IF ok THEN [ op |-> "mark", ids |-> req.ids, filepath |-> "file" ]
        ELSE [ op |-> "none" ]

ExportFile ==
  /\ ~exited
  /\ UNCHANGED << dec, exp >>
  /\ req.op = "export"
  /\ \E ok \in BOOLEAN : req' = AfterExport(ok)
  /\ UNCHANGED << papers, fetch_status, nextCycle, cyc, src, written, buffer,
                  yielded, exited >>

\* export_picked, lines 256-269: stamp the exported papers (or raise).
ExportMark ==
  /\ ~exited
  /\ UNCHANGED << dec, exp >>
  /\ req.op = "mark"
  /\ \E fault \in BOOLEAN, t \in { u \in 1..MaxTime : u = Now \/ u = Now + 1 } :
       papers' = IF fault THEN papers ELSE MarkExported(papers, req.ids, t)
  /\ req' = [ op |-> "none" ]
  /\ UNCHANGED << fetch_status, nextCycle, cyc, src, written, buffer, yielded, exited >>

\* papers_archive, line 134: the ids listed by the archive tab.
PapersArchiveShort(ps) == FindAll(ps, 1)

PapersArchive(ps) == FindAll(ps, 500)

\* What may fail in the hook: Settings.load() (line 20), PaperRepository(...)
\* (line 21), reset_all_picked() (line 22), or nothing.
HookFaults == {"none", "settings", "repo", "reset"}

\* A hook without the except clause: the failure leaves the hook.
HookOutcomePropagates(fault) ==
  [ fault |-> fault,
    reset_calls |-> IF fault \in {"none", "reset"} THEN 1 ELSE 0,
    raised |-> fault # "none" ]

\* Lines 17-24: how the hook ends; except Exception: pass swallows the failure.
HookOutcome(fault) ==
  [ fault |-> fault,
    reset_calls |-> IF fault \in {"none", "reset"} THEN 1 ELSE 0,
    raised |-> FALSE ]

\* _reset_picked_on_exit: registered once (line 35), runs once at exit.
ResetPickedOnExit ==
  /\ ~exited
  /\ UNCHANGED << dec, exp >>
  /\ exited' = TRUE
  /\ \E fault \in HookFaults :
       /\ papers' = IF fault = "none" THEN ResetAllPicked(papers) ELSE papers
       /\ req' = [ op |-> "exited", hook |-> HookOutcome(fault) ]
  \* The process is gone: only the store outlives it.
  /\ fetch_status' = StatusIdle
  /\ cyc' = [ c \in Cycles |-> IdleCycle ]
  /\ src' = [ c \in Cycles |-> [ s \in Sources |-> "idle" ] ]
  /\ written' = [ c \in Cycles |-> {} ]
  /\ buffer' = [ c \in Cycles |-> << >> ]
  /\ yielded' = [ c \in Cycles |-> << >> ]
  /\ UNCHANGED nextCycle

Next ==
  \/ FetchPapers
  \/ \E c \in Cycles : DoFetchBegin(c)
  \/ \E c \in Cycles : DoFetchArchive(c)
  \/ \E c \in Cycles : DoFetchUpsert(c)
  \/ \E c \in Cycles : DoFetchFinish(c)
  \/ \E c \in Cycles : DoFetchExcept(c)
  \/ \E c \in Cycles, s \in Sources : SourceStart(c, s)
  \/ \E c \in Cycles, s \in Sources : SourceOk(c, s)
  \/ \E c \in Cycles, s \in Sources : SourceFail(c, s)
  \/ \E id \in Ids : PickPaperRead(id)
  \/ PickPaperWrite
  \/ \E ids \in IdLists : PickAll(ids)
  \/ \E ids \in IdLists : UnpickAll(ids)
  \/ ExportRead
  \/ ExportFile
  \/ ExportMark
  \/ ResetPickedOnExit

Spec == Init /\ [][Next]_vars

\* The thread that runs _do_fetch keeps being scheduled, a worker with a free
\* slot takes a queued source, and a fetch that was started ends (its
\* request carries a timeout); requests and process exit may or may not come.
LiveSpec ==
  /\ Init
  /\ [][Next]_vars
  /\ \A c \in Cycles :
       /\ WF_vars(DoFetchBegin(c))
       /\ WF_vars(DoFetchArchive(c))
       /\ WF_vars(DoFetchUpsert(c))
       /\ WF_vars(DoFetchFinish(c))
       /\ WF_vars(DoFetchExcept(c))
       /\ \A s \in Sources :
            /\ WF_vars(SourceStart(c, s))
            /\ WF_vars(SourceOk(c, s) \/ SourceFail(c, s))

(* --------------------------- get_paper_info (as.py) --------------------- *)

Words == {"the", "cat"}

Positions == 0..MaxPos

PosLists == UNION { [ 1..n -> Positions ] : n \in 0..MaxPosLen }

\* abstract_inverted_index: the (word, positions) items of the JSON object in
\* the order the dict iterates them; the words of one object are distinct.
\* iterable is FALSE for a value that is no list (a number, null), over which
\* the for statement of line 25 raises TypeError.
Entries ==
  [ word : Words, pos_list : PosLists, iterable : {TRUE} ] \cup
  [ word : Words, pos_list : { << >> }, iterable : {FALSE} ]

InvIndexes ==
  { ix \in UNION { [ 1..n -> Entries ] : n \in 0..Cardinality(Words) } :
      \A a \in DOMAIN ix : \A b \in DOMAIN ix : a # b => ix[a].word # ix[b].word }

\* The outcomes of requests.get: an exception (network error, timeout), or a
\* response with a status and, for 200, whether response.json() parses the
\* body and the fields of the body that are read.
Responses ==
  { [ kind |-> "exception" ], [ kind |-> "http", status |-> 404 ],
    [ kind |-> "http", status |-> 200, json |-> FALSE, authors |-> << >>,
      venue |-> << >>, inv_index |-> [ present |-> FALSE, items |-> << >> ] ] } \cup
  { [ kind |-> "http", status |-> 200, json |-> TRUE, authors |-> a, venue |-> v,
      inv_index |-> ix ] :
      a \in { << >>, << "Ann", "Bob" >> },
      v \in { << >>, << "Nature" >> },
      ix \in [ present : {FALSE}, items : { << >> } ] \cup
             [ present : {TRUE}, items : InvIndexes ] }

\* Lines 24-25: iterating the index raises at a value that is no list.
DecodeRaises(inv_index) ==
  /\ inv_index.present
  /\ \E k \in DOMAIN inv_index.items : ~inv_index.items[k].iterable

\* The body of the try block raises: requests.get (line 8), response.json()
\* (line 10) or the decoding loop (lines 24-26).
TryRaises(resp) ==
  \/ resp.kind = "exception"
  \/ /\ resp.kind = "http"
     /\ resp.status = 200
     /\ (~resp.json \/ DecodeRaises(resp.inv_index))

\* word_counts[pos] = word (line 26).
SetWordKeepFirst(wc, pos, word) ==
  [ p \in DOMAIN wc \cup {pos} |-> IF p \in DOMAIN wc THEN wc[p] ELSE word ]

SetWord(wc, pos, word) ==
  [ p \in DOMAIN wc \cup {pos} |-> IF p = pos THEN word ELSE wc[p] ]

\* for pos in pos_list (lines 25-26).
RECURSIVE PutWord(_, _, _)
PutWord(wc, word, pos_list) ==
  IF pos_list = << >> THEN wc
  ELSE PutWord(SetWord(wc, Head(pos_list), word), word, Tail(pos_list))

\* for word, pos_list in inv_index.items() (lines 23-26).
RECURSIVE WordCounts(_, _)
WordCounts(wc, items) ==
  IF items = << >> THEN wc
  ELSE WordCounts(PutWord(wc, Head(items).word, Head(items).pos_list), Tail(items))

\* sorted(word_counts.keys())
RECURSIVE Sorted(_)
Sorted(S) ==
  IF S = {} THEN << >>
  ELSE LET m == CHOOSE x \in S : \A y \in S : x <= y
       IN  << m >> \o Sorted(S \ {m})

\* ' '.join(...)
RECURSIVE Join(_)
Join(ws) ==
  IF ws = << >> THEN ""
  ELSE IF Len(ws) = 1 THEN ws[1]
  ELSE ws[1] \o " " \o Join(Tail(ws))

\* Lines 19-27: the abstract of a response body.
Abstract(inv_index) ==
  IF ~inv_index.present \/ inv_index.items = << >>
    THEN "N/A"
    ELSE LET word_counts == WordCounts(<< >>, inv_index.items)
             keys == Sorted(DOMAIN word_counts)
         IN  Join([ k \in DOMAIN keys |-> word_counts[keys[k]] ])

\* get_paper_info, lines 7-35.
GetPaperInfo ==
  /\ dec.pc = "call"
  /\ UNCHANGED << appvars, exp >>
  /\ dec' = [ dec EXCEPT
                !.pc = "returned",
                !.result =
                  IF TryRaises(dec.resp)
                    THEN [ kind |-> "error" ]
                  ELSE IF dec.resp.status # 200
                    THEN [ kind |-> "none" ]
                  ELSE [ kind |-> "info",
                         authors |-> dec.resp.authors,
                         journal |-> IF dec.resp.venue = << >> THEN "N/A"
                                     ELSE dec.resp.venue[1],
                         abstract |-> Abstract(dec.resp.inv_index) ] ]

DecInit ==
  /\ papers = << >>
  /\ fetch_status = StatusIdle
  /\ nextCycle = 0
  /\ cyc = [ c \in Cycles |-> IdleCycle ]
  /\ src = [ c \in Cycles |-> [ s \in Sources |-> "idle" ] ]
  /\ written = [ c \in Cycles |-> {} ]
  /\ buffer = [ c \in Cycles |-> << >> ]
  /\ yielded = [ c \in Cycles |-> << >> ]
  /\ req = [ op |-> "none" ]
  /\ exited = FALSE
  /\ exp = [ pc |-> "idle" ]
  /\ dec \in { [ pc |-> "call", resp |-> r, result |-> [ kind |-> "none" ] ] :
               r \in Responses }

DecNext == GetPaperInfo

DecSpec == DecInit /\ [][DecNext]_vars

(* ------------------ _bib_slug (export_service.py) ----------------------- *)

\* Text is a sequence of one-character strings.
Alnum == {"a", "b", "B"}

\* \w of a str pattern: alphanumeric characters and the underscore.
IsWordChar(ch) == ch \in Alnum \cup {"_"}

\* \s
IsSpace(ch) == ch = " "

\* [:40] of line 20.
SlugCap == 40

\* [:3] of line 19.
SlugWords == 3

PaperIds == {0, 7}

LongWord == [ i \in 1..LongLen |-> "a" ]

Chunks ==
  { << >>, << "a" >>, << "B" >>, << "!" >>, << "_" >>, << "a", "!", "B" >>, LongWord }

RECURSIVE JoinWith(_, _)
JoinWith(ws, sep) ==
  IF ws = << >> THEN << >>
  ELSE IF Len(ws) = 1 THEN ws[1]
  ELSE ws[1] \o sep \o JoinWith(Tail(ws), sep)

\* The titles: up to MaxChunks chunks with single spaces between them (an
\* empty chunk gives a leading, trailing or doubled space).
Titles ==
  { JoinWith(cs, << " " >>) : cs \in UNION { [ 1..n -> Chunks ] : n \in 0..MaxChunks } }

\* re.sub(r"[^\w\s]", "", title)
ReSub(title) == SelectSeq(title, LAMBDA ch : IsWordChar(ch) \/ IsSpace(ch))

\* Index of the first whitespace of s, Len(s) + 1 if it has none.
FirstSpace(s) ==
  LET S == { i \in DOMAIN s : IsSpace(s[i]) } IN
  IF S = {} THEN Len(s) + 1 ELSE CHOOSE i \in S : \A j \in S : i <= j

\* str.split(): the maximal runs of non-whitespace.
RECURSIVE Split(_)
Split(s) ==
  IF s = << >> THEN << >>
  ELSE IF IsSpace(Head(s)) THEN Split(Tail(s))
  ELSE LET n == FirstSpace(s) IN
       << SubSeq(s, 1, n - 1) >> \o Split(SubSeq(s, n, Len(s)))

\* s[:n]
Take(s, n) == SubSeq(s, 1, Min(n, Len(s)))

\* str.lower()
Lower(w) == [ i \in DOMAIN w |-> IF w[i] = "B" THEN "b" ELSE w[i] ]

DigitChars == << "0", "1", "2", "3", "4", "5", "6", "7", "8", "9" >>

\* The decimal digits of a natural number.
RECURSIVE Digits(_)
Digits(n) ==
  IF n < 10 THEN << DigitChars[n + 1] >>
  ELSE Digits(n \div 10) \o << DigitChars[(n % 10) + 1] >>

\* f"paper_{paper_id}"
PaperN(paper_id) == << "p", "a", "p", "e", "r", "_" >> \o Digits(paper_id)

\* _bib_slug, lines 15-21.
BibSlug(title, paper_id) ==
  IF title = << >> THEN PaperN(paper_id)
  ELSE LET words == Take(Split(ReSub(title)), SlugWords)
           kept == SelectSeq(words, LAMBDA w : w # << >>)
           slug == Take(JoinWith([ i \in DOMAIN kept |-> Lower(kept[i]) ], << "_" >>),
                        SlugCap)
       IN  IF slug = << >> THEN PaperN(paper_id) ELSE slug

BibSlugCall ==
  /\ exp.pc = "slug"
  /\ exp' = [ exp EXCEPT !.pc = "returned",
                          !.result = BibSlug(exp.title, exp.paper_id) ]
  /\ UNCHANGED << appvars, dec >>

\* No request, no cycle, an empty store.
AppIdle ==
  /\ papers = << >>
  /\ fetch_status = StatusIdle
  /\ nextCycle = 0
  /\ cyc = [ c \in Cycles |-> IdleCycle ]
  /\ src = [ c \in Cycles |-> [ s \in Sources |-> "idle" ] ]
  /\ written = [ c \in Cycles |-> {} ]
  /\ buffer = [ c \in Cycles |-> << >> ]
  /\ yielded = [ c \in Cycles |-> << >> ]
  /\ req = [ op |-> "none" ]
  /\ exited = FALSE

SlugInit ==
  /\ AppIdle
  /\ dec = [ pc |-> "idle" ]
  /\ exp \in { [ pc |-> "slug", title |-> t, paper_id |-> i, result |-> << >> ] :
               t \in Titles, i \in PaperIds }

SlugNext == BibSlugCall

SlugSpec == SlugInit /\ [][SlugNext]_vars

(* ------------- MarkdownExporter.export (export_service.py) -------------- *)

Formats == {"tex", "md", "csv"}

\* EXT, line 12.
Ext(format) == IF format = "tex" THEN ".bib" ELSE IF format = "csv" THEN ".csv" ELSE ".md"

Clocks == 1..MaxClock

\* "2024-05-06T07:08"
DateTime ==
  << "2", "0", "2", "4", "-", "0", "5", "-", "0", "6", "T", "0", "7", ":", "0", "8" >>

\* The records handed to the exporter. Empty text stands for None as well:
\* the code reads every text field through (x or "").
ExportPapers ==
  [ id : {1, 2},
    title : { << >>, << "B", " ", "{", "a", "}" >> },
    journal : { << "J" >> },
    authors : { << "Ann", "Bob", "Cy", "Di" >> },
    published : { << >>, DateTime },
    doi : { << >>, << "1", "0", ".", "1" >> },
    link : { << "L" >> },
    created_at : { DateTime } ]

PaperLists == UNION { [ 1..n -> ExportPapers ] : n \in 0..MaxExport }

\* .replace("{", "{{").replace("}", "}}")
RECURSIVE EscapeBraces(_)
EscapeBraces(t) ==
  IF t = << >> THEN << >>
  ELSE (IF Head(t) \in {"{", "}"} THEN << Head(t), Head(t) >> ELSE << Head(t) >>)
       \o EscapeBraces(Tail(t))

\* _bib_author, lines 24-35, on the names the author text splits into.
BibAuthor(parts) ==
  IF parts = << >> THEN [ names |-> << "Unknown" >>, others |-> FALSE ]
  ELSE IF Len(parts) > 3 THEN [ names |-> Take(parts, 3), others |-> TRUE ]
  ELSE [ names |-> parts, others |-> FALSE ]

\* _content_tex, lines 42-62: the block of one paper.
TexBlock(p) ==
  LET year == IF Take(p.published, 4) = << >> THEN << "0", "0", "0", "0" >>
              ELSE Take(p.published, 4)
      month == IF Len(p.published) >= 7 THEN SubSeq(p.published, 6, 7) ELSE << "0", "1" >>
      day == IF Len(p.published) >= 10 THEN SubSeq(p.published, 9, 10) ELSE << "0", "1" >>
      slug == BibSlug(p.title, p.id)
  IN  [ key |-> [ prefix |-> "paperbot", year |-> year, id |-> p.id, slug |-> slug ],
        author |-> BibAuthor(p.authors),
        title |-> EscapeBraces(p.title),
        journal |-> EscapeBraces(p.journal),
        year |-> year, month |-> month, day |-> day,
        doi |-> p.doi,
        url |-> IF p.doi # << >> THEN << "doi.org", p.doi >> ELSE << >> ]

\* _content_tex, lines 38-63: the blocks in the order of the loop.
ContentTex(ps) == [ i \in DOMAIN ps |-> TexBlock(ps[i]) ]

\* _content_md, lines 69-89: the lines of one paper.
MdLines(p) ==
  << [ kind |-> "h2", text |-> IF p.title = << >> THEN << "(No title)" >> ELSE p.title ] >>
  \o (IF p.journal # << >> THEN << [ kind |-> "journal", text |-> p.journal ] >> ELSE << >>)
  \o (IF p.authors # << >>
        THEN << [ kind |-> "authors",
                  text |-> IF Len(p.authors) > 3
                             THEN Take(p.authors, 3) \o << "et al." >>
                             ELSE p.authors ] >>
        ELSE << >>)
  \o (IF p.published # << >>
        THEN << [ kind |-> "published", text |-> Take(p.published, 10) ] >> ELSE << >>)
  \o (IF p.doi # << >> THEN << [ kind |-> "doi", text |-> p.doi ] >>
      ELSE IF p.link # << >> THEN << [ kind |-> "link", text |-> p.link ] >>
      ELSE << >>)
  \o << [ kind |-> "blank", text |-> << >> ] >>

RECURSIVE MdBody(_)
MdBody(ps) == IF ps = << >> THEN << >> ELSE MdLines(Head(ps)) \o MdBody(Tail(ps))

\* _content_md, lines 66-90.
ContentMd(ps, export_date) ==
  << [ kind |-> "h1", text |-> << "PaperBot Export List", export_date >> ] >> \o MdBody(ps)

\* _content_csv, lines 101-115: the row of one paper.
CsvRow(p) ==
  << p.title, p.journal, p.authors, Take(p.published, 10), p.doi, Take(p.created_at, 10) >>

CsvHeader == << "Title", "Journal", "Authors", "Date_Published", "DOI", "Added_Date" >>

\* A writer that leaves out the papers without a title.
ContentCsvSkipsUntitled(ps) ==
  << CsvHeader >> \o
  LET kept == SelectSeq(ps, LAMBDA p : p.title # << >>) IN
  [ i \in DOMAIN kept |-> CsvRow(kept[i]) ]

\* _content_csv, lines 93-116.
ContentCsv(ps) == << CsvHeader >> \o [ i \in DOMAIN ps |-> CsvRow(ps[i]) ]

\* export, lines 147-164: the path and the content written to it.
Export(ps, format, now) ==
  [ path |-> [ stamp |-> now, ext |-> Ext(format) ],
    content |-> IF format = "tex" THEN ContentTex(ps)
                ELSE IF format = "csv" THEN ContentCsv(ps)
                ELSE ContentMd(ps, now) ]

\* One call of export; the clock is read in the call (line 147).
ExportCall ==
  /\ exp.pc \in {"export", "again"}
  /\ \E now \in Clocks :
       exp' = [ exp EXCEPT
                  !.pc = IF exp.pc = "export" THEN "again" ELSE "exported",
                  !.runs = Append(@, [ now |-> now,
                                       out |-> Export(exp.papers, exp.format, now) ]) ]
  /\ UNCHANGED << appvars, dec >>

ExpInit ==
  /\ AppIdle
  /\ dec = [ pc |-> "idle" ]
  /\ exp \in { [ pc |-> "export", papers |-> ps, format |-> f, runs |-> << >> ] :
               ps \in PaperLists, f \in Formats }

ExpNext == ExportCall

ExpSpec == ExpInit /\ [][ExpNext]_vars

(* ===================== C1: upsert is idempotent on identity ============= *)

\* The identity of the data model: doi when present, else link.
RecordIdentity(p) == IF p.doi = None THEN p.link ELSE p.doi

NoSharedIdentity ==
  \A i \in DOMAIN papers : \A j \in DOMAIN papers :
    i # j => RecordIdentity(papers[i]) # RecordIdentity(papers[j])

\* The step is an iteration of cycle c's loop whose upsert returned normally.
UpsertStep(c) ==
  /\ cyc[c].pc = "loop"
  /\ cyc'[c].total_processed = cyc[c].total_processed + 1

UpsertReturnedTrue(c) == cyc'[c].total_new = cyc[c].total_new + 1

UpsertIdempotentStep(c) ==
  LET k == RecordIdentity(Head(buffer[c]))
      known == \E i \in DOMAIN papers : RecordIdentity(papers[i]) = k
  IN  IF known
        THEN /\ ~UpsertReturnedTrue(c)
             /\ Len(papers') = Len(papers)
             /\ \A i \in DOMAIN papers :
                  /\ papers'[i].is_picked = papers[i].is_picked
                  /\ papers'[i].exported_at = papers[i].exported_at
                  /\ RecordIdentity(papers'[i]) = RecordIdentity(papers[i])
        ELSE /\ UpsertReturnedTrue(c)
             /\ Len(papers') = Len(papers) + 1
             /\ RecordIdentity(papers'[Len(papers')]) = k
             /\ \A i \in DOMAIN papers : papers'[i] = papers[i]

\* C1: no two records ever share an identity (doi, else link); an upsert of an
\* unseen identity returns true and adds exactly one record; an upsert of a
\* known identity returns false, adds no record and leaves every record's
\* is_picked and exported_at as they were.
C1_UpsertIdempotent ==
  /\ []NoSharedIdentity
  /\ [][\A c \in Cycles : UpsertStep(c) => UpsertIdempotentStep(c)]_vars

\* A cycle has merged a candidate into a record that is picked and exported.
C1_Witness ==
  \E c \in Cycles :
    /\ cyc[c].pc = "loop"
    /\ cyc[c].total_new < cyc[c].total_processed
    /\ \E i \in written[c] : papers[i].is_picked /\ papers[i].exported_at > 0

(* ============ C2: one sweep per cycle, before the cycle's upserts ======= *)

\* The step hands a candidate of cycle c to upsert (whether or not it raises).
UpsertCalled(c) ==
  cyc[c].pc = "loop" /\ buffer[c] # << >> /\ cyc'[c] # cyc[c] /\ ~exited'

SweepCalled(c) == cyc'[c].archive_calls = cyc[c].archive_calls + 1

NoUpsertYet(c) ==
  cyc[c].total_processed = 0 /\ written[c] = {} /\ yielded[c] = << >>

SweepCount ==
  \A c \in Cycles :
    /\ cyc[c].pc \in {"unused", "scheduled", "archive"} =>
         cyc[c].archive_calls = 0 /\ NoUpsertYet(c)
    /\ cyc[c].pc \in {"loop", "except", "done"} => cyc[c].archive_calls = 1

\* C2: in every fetch cycle archiveOldNew is invoked exactly once, and no
\* upsert of the cycle precedes it: the sweep runs while the cycle has made
\* no upsert, and every upsert of the cycle runs after its one sweep.
C2_SweepOnceBeforeUpserts ==
  /\ []SweepCount
  /\ [][\A c \in Cycles :
          /\ SweepCalled(c) => cyc[c].archive_calls = 0 /\ NoUpsertYet(c)
          /\ UpsertCalled(c) => cyc[c].archive_calls = 1]_vars

\* A cycle has made two upserts after its one sweep.
C2_Witness ==
  \E c \in Cycles :
    cyc[c].pc = "loop" /\ cyc[c].total_processed >= 2 /\ cyc[c].archive_calls = 1

(* ================== C3: what the sweep leaves behind ==================== *)

\* The step is cycle c's sweep, and it returned normally.
SweepReturned(c) == SweepCalled(c) /\ cyc'[c].pc = "loop"

SweepEffect(c) ==
  /\ DOMAIN papers' = DOMAIN papers
  /\ \A i \in DOMAIN papers :
       /\ papers'[i].status # "new"
       /\ papers[i].status # "new" => papers'[i] = papers[i]
       /\ papers[i].status = "new" =>
            papers'[i] = [ papers[i] EXCEPT !.status = "archived" ]
  /\ cyc'[c].archived = Cardinality({ i \in DOMAIN papers : papers[i].status = "new" })

OnlyFreshIsNew ==
  \A c \in Cycles :
    cyc[c].pc = "loop" =>
      \A i \in DOMAIN papers : papers[i].status = "new" => i \in written[c]

\* C3: right after the sweep of a cycle returns no stored record has status
\* new (every stored record precedes the cycle then), the records that were
\* already archived are unchanged and not counted, and for the rest of the
\* cycle every record with status new was written by an upsert of that cycle.
C3_SweepLeavesOnlyFresh ==
  /\ []OnlyFreshIsNew
  /\ [][\A c \in Cycles : SweepReturned(c) => SweepEffect(c)]_vars

\* A second cycle is past its sweep: a record of the first cycle is archived,
\* another record is new and was written by the running cycle.
C3_Witness ==
  \E c \in Cycles :
    /\ c > 1
    /\ cyc[c].pc = "loop"
    /\ cyc[c].archived > 0
    /\ \E i \in DOMAIN papers : papers[i].status = "archived" /\ i \notin written[c]
    /\ \E i \in written[c] : papers[i].status = "new"

(* ============ C4: fetchAll yields the union and terminates ============== *)

Count(seq, x) == Cardinality({ i \in DOMAIN seq : seq[i] = x })

\* How often candidate x occurs in the feeds of the sources that succeeded.
FromOk(c, x) ==
  Cardinality(UNION { { << s, i >> : i \in { j \in DOMAIN FeedOf(s) : FeedOf(s)[j] = x } } :
                      s \in { t \in Sources : src[c][t] = "ok" } })

\* What has arrived so far (handed out or waiting) is what the succeeded
\* sources returned, entry for entry.
ArrivedIsUnion ==
  \A c \in Cycles :
    cyc[c].pc = "loop" =>
      \A x \in Candidates : Count(yielded[c] \o buffer[c], x) = FromOk(c, x)

\* The stream of cycle c ended and the loop was left normally.
StreamEnded(c) == cyc[c].pc = "loop" /\ cyc'[c].pc = "done" /\ ~exited'

YieldedIsUnion(c) ==
  /\ \A s \in Sources : src[c][s] \in {"ok", "failed"}
  /\ \A x \in Candidates : Count(yielded[c], x) = FromOk(c, x)

\* A step of the pool or of the consumer of cycle c.
PoolStep(c) ==
  \/ \E s \in Sources : SourceStart(c, s) \/ SourceOk(c, s) \/ SourceFail(c, s)
  \/ DoFetchUpsert(c)
  \/ DoFetchFinish(c)

NeverStuck ==
  \A c \in Cycles : (cyc[c].pc = "loop" /\ ~exited) => ENABLED PoolStep(c)

MaxFeedLen ==
  CHOOSE n \in 0..Cardinality(Candidates) + NumSources :
    /\ \A s \in Sources : Len(FeedOf(s)) <= n
    /\ \E s \in Sources : Len(FeedOf(s)) = n

RECURSIVE Outstanding(_, _)
Outstanding(st, n) ==
  IF n = 0 THEN 0
  ELSE Outstanding(st, n - 1) +
       (IF st[n] = "queued" THEN MaxFeedLen + 2
        ELSE IF st[n] = "active" THEN MaxFeedLen + 1 ELSE 0)

\* Work left in a stream: unfinished fetches and unconsumed candidates.
Measure(st, buf) == Outstanding(st, NumSources) + Len(buf)

\* C4: for every worker bound the code computes and every scheduling of the
\* fetches, fetchAll ends having yielded exactly the entries of the sources
\* that succeeded (a failed source adds none), with every source attempted;
\* it terminates: a running stream can always take a step, and every step of
\* it reduces the work left.
C4_FetchAllYieldsUnion ==
  /\ []ArrivedIsUnion
  /\ []NeverStuck
  /\ [][\A c \in Cycles :
          /\ StreamEnded(c) => YieldedIsUnion(c)
          /\ (cyc[c].pc = "loop" /\ cyc'[c].pc = "loop" /\
              (src'[c] # src[c] \/ buffer'[c] # buffer[c])) =>
               Measure(src'[c], buffer'[c]) < Measure(src[c], buffer[c])]_vars

\* A stream is exhausted after one source failed and another delivered.
C4_Witness ==
  \E c \in Cycles :
    /\ cyc[c].pc = "loop"
    /\ buffer[c] = << >>
    /\ yielded[c] # << >>
    /\ \A s \in Sources : src[c][s] \in {"ok", "failed"}
    /\ \E s \in Sources : src[c][s] = "failed"
    /\ \E s \in Sources : src[c][s] = "ok"

(* ================= C5: the worker bound and the pool ==================== *)

\* max(1, min(8, availableParallelism - 1)), an unknown parallelism (0) being 2.
ClaimedBound(n) ==
  LET p == IF n = 0 THEN 2 ELSE n
      m == IF p - 1 > 8 THEN 8 ELSE p - 1
  IN  IF m < 1 THEN 1 ELSE m

\* C5: the worker bound is max(1, min(8, parallelism - 1)), between 1 and 8
\* for every parallelism (unknown counts as 2), and the fetches of a cycle
\* that are active at the same time never outnumber it.
C5_WorkerBound ==
  /\ \A n \in 0..MaxCpu : WorkerBound(n) = ClaimedBound(n) /\ WorkerBound(n) \in 1..8
  /\ \A c \in Cycles :
       cyc[c].pc = "loop" =>
         /\ cyc[c].workers \in { ClaimedBound(n) : n \in CpuCounts }
         /\ Cardinality({ s \in Sources : src[c][s] = "active" }) <= cyc[c].workers

\* The pool is full and a source waits for a slot.
C5_Witness ==
  \E c \in Cycles :
    /\ cyc[c].pc = "loop"
    /\ Cardinality({ s \in Sources : src[c][s] = "active" }) = cyc[c].workers
    /\ \E s \in Sources : src[c][s] = "queued"

(* ================= C6: a storage fault aborts the cycle ================= *)

ErrorResult(st) == ~st.running /\ st.complete /\ st.message = "error"

\* A cycle in which a repository call raised has left the loop.
RaisedLeavesLoop == \A c \in Cycles : cyc[c].raised => cyc[c].pc = "except"

MakesNoUpsert(c) ==
  /\ written'[c] = written[c]
  /\ yielded'[c] = yielded[c]
  /\ cyc'[c].total_processed = cyc[c].total_processed

\* C6: when archiveOldNew or an upsert raises, the raising call writes
\* nothing, the cycle makes no further upsert, and its next and last act is
\* to publish one error result (running = false, complete = true), never a
\* summary.
C6_FaultAborts ==
  /\ []RaisedLeavesLoop
  /\ [][\A c \in Cycles :
          /\ (cyc'[c].raised /\ ~cyc[c].raised) => papers' = papers
          /\ (cyc[c].raised /\ ~exited') =>
               /\ MakesNoUpsert(c)
               /\ cyc'[c] # cyc[c] =>
                    cyc'[c].pc = "done" /\ ErrorResult(fetch_status')
          /\ (cyc[c].pc = "done" /\ ~exited') =>
               cyc'[c].pc = "done" /\ MakesNoUpsert(c)]_vars

\* The first cycle was aborted by an upsert that raised after another upsert
\* had written, and the error is published.
C6_Witness ==
  /\ nextCycle = 1
  /\ cyc[1].pc = "done"
  /\ Len(papers) > 0
  /\ ErrorResult(fetch_status)

(* ============ C7: exported_at is set by successful exports only ========= *)

ExportInProgress ==
  req.op \in {"export", "mark"} => req.ids # {} /\ req.ids \subseteq DOMAIN papers

\* C7: a record is created without an export stamp; its exported_at changes
\* only in the mark_exported call that follows an export which returned a
\* file, and only if the record was in the exported set; a failed export and
\* a request with nothing picked change no stamp; no stamp ever decreases.
C7_ExportedAtOnlyByExport ==
  /\ []ExportInProgress
  /\ [][\A i \in DOMAIN papers' :
          IF i \in DOMAIN papers
            THEN /\ papers'[i].exported_at >= papers[i].exported_at
                 /\ papers'[i].exported_at # papers[i].exported_at =>
                      /\ req.op = "mark"
                      /\ req.filepath = "file"
                      /\ i \in req.ids
                      /\ req'.op = "none"
            ELSE papers'[i].exported_at = 0]_vars

\* One record carries an export stamp while another, stored as well, has none.
C7_Witness ==
  \E i \in DOMAIN papers : \E j \in DOMAIN papers :
    papers[i].exported_at > 0 /\ papers[j].exported_at = 0

(* ================= C8: pick, unpick and the sweep ======================= *)

\* Only is_picked of the records named by ids may differ after the step.
PickFrame(ids) ==
  /\ DOMAIN papers' = DOMAIN papers
  /\ \A i \in DOMAIN papers :
       /\ i \notin ids => papers'[i] = papers[i]
       /\ papers'[i] = [ papers[i] EXCEPT !.is_picked = papers'[i].is_picked ]
  /\ ids \cap DOMAIN papers = {} => papers' = papers

\* C8: pick and unpick of an id that is not stored change no record, and of a
\* stored id change nothing but its is_picked (never status, never the set of
\* records); the sweep changes no is_picked, so a picked record that it
\* archives is still picked.
C8_PickFrame ==
  [][/\ \A ids \in IdLists : (PickAll(ids) \/ UnpickAll(ids)) => PickFrame(ids)
     /\ PickPaperWrite => PickFrame({req.id})
     /\ \A c \in Cycles :
          SweepCalled(c) =>
            \A i \in DOMAIN papers : papers'[i].is_picked = papers[i].is_picked]_vars

\* A later cycle has just swept, and a record it archived is picked.
C8_Witness ==
  \E c \in Cycles :
    /\ cyc[c].pc = "loop"
    /\ cyc[c].archived > 0
    /\ written[c] = {}
    /\ \E i \in DOMAIN papers : papers[i].is_picked /\ papers[i].status = "archived"

(* ================= C9: no record is ever removed ======================== *)

Populated(items) ==
  { p \in Positions :
      \E k \in DOMAIN items : \E j \in DOMAIN items[k].pos_list :
        items[k].pos_list[j] = p }

Claims(items, k, p) == \E j \in DOMAIN items[k].pos_list : items[k].pos_list[j] = p

\* The word encountered last among those that claim position p.
LastWordAt(items, p) ==
  LET k == CHOOSE a \in DOMAIN items :
             Claims(items, a, p) /\ \A b \in DOMAIN items : Claims(items, b, p) => b <= a
  IN  items[k].word

\* The populated position with n - 1 populated positions below it.
NthPopulated(items, n) ==
  CHOOSE p \in Populated(items) :
    Cardinality({ q \in Populated(items) : q < p }) = n - 1

ExpectedWords(items) ==
  [ n \in 1..Cardinality(Populated(items)) |-> LastWordAt(items, NthPopulated(items, n)) ]

RECURSIVE SpaceJoined(_)
SpaceJoined(ws) ==
  IF Len(ws) = 0 THEN ""
  ELSE IF Len(ws) = 1 THEN ws[1]
  ELSE SpaceJoined(SubSeq(ws, 1, Len(ws) - 1)) \o " " \o ws[Len(ws)]

\* A 200 response whose body parses and whose index, if any, is well formed.
Decoded ==
  /\ dec.pc = "returned"
  /\ dec.resp.kind = "http"
  /\ dec.resp.status = 200
  /\ dec.resp.json
  /\ \A k \in DOMAIN dec.resp.inv_index.items : dec.resp.inv_index.items[k].iterable

\* C10: for a response with a non-empty inverted index (each word mapped to a
\* list of positions) the abstract is the
\* words of the populated positions in ascending position order, joined by
\* single spaces, gaps skipped, a position claimed twice keeping the word met
\* last; an absent or empty index gives the sentinel "N/A".
C10_DecoderRebuildsText ==
  Decoded =>
    /\ dec.result.kind = "info"
    /\ dec.result.abstract =
         IF dec.resp.inv_index.present /\ dec.resp.inv_index.items # << >>
           THEN SpaceJoined(ExpectedWords(dec.resp.inv_index.items))
           ELSE "N/A"

\* The index {the: [0, 2], cat: [1]} has been decoded to "the cat the".
C10_Witness ==
  /\ Decoded
  /\ dec.resp.inv_index.present
  /\ dec.resp.inv_index.items =
       << [ word |-> "the", pos_list |-> << 0, 2 >>, iterable |-> TRUE ],
          [ word |-> "cat", pos_list |-> << 1 >>, iterable |-> TRUE ] >>
  /\ dec.result.abstract = "the cat the"

(* ============ C11: failures of the metadata fetch ====================== *)

\* The outcome is HTTP 200 with a body that parses.
OkOutcome == dec.resp.kind = "http" /\ dec.resp.status = 200 /\ dec.resp.json

\* C11: get_paper_info returns (it never raises), and on every outcome other
\* than HTTP 200 with a parsable body (another status, a network error or
\* timeout, a body that does not parse) what it returns is an error value.
C11_FailureIsFetchError ==
  (dec.pc = "returned" /\ ~OkOutcome) => dec.result.kind = "error"

(* ============ C12: a malformed inverted index ========================== *)

\* C12: on a 200 response whose inverted index is malformed (a word whose
\* position list is no list) the result still carries the authors and the
\* venue of the response, with the sentinel as abstract.
C12_MalformedKeepsPartialFields ==
  (dec.pc = "returned" /\ OkOutcome /\ DecodeRaises(dec.resp.inv_index)) =>
    /\ dec.result.kind = "info"
    /\ dec.result.abstract = "N/A"
    /\ dec.result.authors = dec.resp.authors
    /\ dec.result.journal = (IF dec.resp.venue = << >> THEN "N/A" ELSE dec.resp.venue[1])

(* ============ C14: the bibtex slug ===================================== *)

\* The chunk with everything but its alphanumeric characters removed.
AlnumOnly(w) == SelectSeq(w, LAMBDA ch : ch \in Alnum)

\* The alphanumeric words of a title: its whitespace-separated chunks, each
\* reduced to its alphanumeric characters, those with none left out.
AlnumWords(title) ==
  LET chunks == Split(title)
      reduced == [ i \in DOMAIN chunks |-> AlnumOnly(chunks[i]) ]
  IN  SelectSeq(reduced, LAMBDA w : w # << >>)

\* The slug as claimed: the first three alphanumeric words, lower-cased,
\* joined by underscores, cut to 40 characters; paper_{id} without a word.
ClaimedSlug(title, paper_id) ==
  LET words == Take(AlnumWords(title), 3) IN
  IF words = << >> THEN PaperN(paper_id)
  ELSE Take(JoinWith([ i \in DOMAIN words |-> Lower(words[i]) ], << "_" >>), 40)

\* C14: for every title and id the slug is the first three alphanumeric
\* words of the title, lower-cased, underscore-joined and cut to 40
\* characters, paper_{id} when the title has no usable word; never empty.
C14_SlugAsClaimed ==
  exp.pc = "returned" =>
    /\ exp.result = ClaimedSlug(exp.title, exp.paper_id)
    /\ exp.result # << >>

(* ============ C13: export is deterministic, one entry per record ======= *)

\* The entries of a content: the blocks of a bibtex file, the headings of a
\* markdown file, the rows of a csv file below its header.
EntriesOf(format, content) ==
  IF format = "tex" THEN content
  ELSE IF format = "csv" THEN Tail(content)
  ELSE SelectSeq(content, LAMBDA l : l.kind = "h2")

\* Entry e renders paper p.
EntryOf(format, e, p) ==
  IF format = "tex"
    THEN e.key.id = p.id /\ e.title = EscapeBraces(p.title) /\ e.doi = p.doi
  ELSE IF format = "csv"
    THEN e[1] = p.title /\ e[5] = p.doi
  ELSE e.text = (IF p.title = << >> THEN << "(No title)" >> ELSE p.title)

OneEntryPerRecord(run) ==
  LET es == EntriesOf(exp.format, run.out.content) IN
  /\ Len(es) = Len(exp.papers)
  /\ \A i \in DOMAIN es : EntryOf(exp.format, es[i], exp.papers[i])

HookRan == exited' /\ ~exited

\* C15: the hook runs once, at exit; it calls resetAllPicked at most once and
\* exactly once when settings and repository load; whatever fails in it, no
\* error leaves the hook and the store is as it was; when nothing fails
\* every record ends with is_picked = false and is otherwise unchanged.
C15_ExitHookBestEffort ==
  /\ [](exited => req.op = "exited" /\ ~req.hook.raised /\ req.hook.reset_calls <= 1)
  /\ [][/\ ~exited
        /\ HookRan =>
             /\ req'.hook.reset_calls = (IF req'.hook.fault \in {"settings", "repo"} THEN 0 ELSE 1)
             /\ req'.hook.fault # "none" => papers' = papers
             /\ req'.hook.fault = "none" =>
                  /\ DOMAIN papers' = DOMAIN papers
                  /\ \A i \in DOMAIN papers :
                       papers'[i] = [ papers[i] EXCEPT !.is_picked = FALSE ]]_vars

\* The hook ran without a failure on a store that held a picked record: an
\* exported record is now unpicked.
C15_Witness ==
  /\ exited
  /\ req.op = "exited"
  /\ req.hook.fault = "none"
  /\ \E i \in DOMAIN papers : papers[i].exported_at > 0 /\ ~papers[i].is_picked

\* The hook ran and its reset failed: a picked record is left picked.
C15_WitnessFailed ==
  /\ exited
  /\ req.op = "exited"
  /\ req.hook.fault = "reset"
  /\ \E i \in DOMAIN papers : papers[i].is_picked

(* ============ C16: one fetch cycle at a time =========================== *)

\* The _do_fetch of an accepted request has not returned yet.
InProgress(c) == cyc[c].pc \in {"scheduled", "archive", "loop", "except"}

\* The step accepts a fetch request: a _do_fetch is scheduled.
Scheduled == \E c \in Cycles : cyc[c].pc = "unused" /\ cyc'[c].pc = "scheduled"

\* C16: at most one fetch cycle is in progress at any time; while one is,
\* fetch_status.running is true, from the acceptance of its request until it
\* finishes; a request handled while running is true schedules nothing; an
\* upsert of one cycle never runs while another cycle is in progress.
C16_OneCycleAtATime ==
  /\ [](Cardinality({ c \in Cycles : InProgress(c) }) <= 1)
  /\ [](\A c \in Cycles : InProgress(c) => fetch_status.running)
  /\ [][/\ fetch_status.running => ~Scheduled /\ nextCycle' = nextCycle
        /\ Scheduled => fetch_status'.running
        /\ \A c \in Cycles :
             UpsertCalled(c) => \A d \in Cycles \ {c} : ~InProgress(d)]_vars

\* A second cycle is upserting after the first one finished with a summary
\* of a cycle that wrote to the store.
C16_Witness ==
  /\ nextCycle = 2
  /\ cyc[1].pc = "done"
  /\ cyc[2].pc = "loop"
  /\ cyc[2].total_processed >= 1
  /\ Len(papers) >= 2

(* ============ C17: every accepted request ends ========================= *)

\* The terminal result of a cycle: a summary or an error message.
TerminalResult ==
  /\ ~fetch_status.running
  /\ fetch_status.complete
  /\ fetch_status.message \in {"summary", "error"}

\* The step is the last one of a cycle's _do_fetch.
CycleEnds == \E c \in Cycles : InProgress(c) /\ cyc'[c].pc = "done" /\ ~exited'

\* C17: unless the process exits first, every accepted fetch request ends:
\* its _do_fetch returns, and a running flag that is set is eventually
\* replaced by a terminal result (running = false, complete = true, a
\* summary or an error message); the step that ends a cycle publishes that
\* result, after which a fetch request is accepted again.
C17_CycleEnds ==
  /\ \A c \in Cycles : (cyc[c].pc = "scheduled") ~> (cyc[c].pc = "done" \/ exited)
  /\ fetch_status.running ~> (TerminalResult \/ exited)
  /\ [][CycleEnds => TerminalResult' /\ Accepts']_vars

\* The first cycle ended having stored one record, and a second request has
\* been accepted since: its cycle is scheduled and running is set again.
C17_Witness ==
  /\ nextCycle = 2
  /\ cyc[1].pc = "done"
  /\ cyc[2].pc = "scheduled"
  /\ fetch_status.running
  /\ \A i \in DOMAIN papers : papers[i].status = "new"
  /\ Len(papers) = 1

(* ============ C18: the counts of the summary =========================== *)

\* The step publishes the summary of cycle c.
SummaryStep(c) ==
  /\ cyc[c].pc = "loop"
  /\ cyc'[c].pc = "done"
  /\ fetch_status'.message = "summary"

\* The ids that upserts of cycle c inserted (they returned true).
InsertedBy(c) == { i \in written[c] : i > cyc[c].base }

\* C18: in the summary of a cycle that completed, processed is the number
\* of candidates fetchAll yielded, new is the number of upserts that
\* returned true and the growth of the store since the cycle's sweep,
\* new <= processed, and archived is the value the cycle's sweep returned.
C18_SummaryCounts ==
  /\ [][\A c \in Cycles :
          /\ SummaryStep(c) =>
               /\ fetch_status'.processed = Len(yielded[c])
               /\ fetch_status'.new = Cardinality(InsertedBy(c))
               /\ fetch_status'.new = Len(papers) - cyc[c].base
               /\ fetch_status'.new <= fetch_status'.processed
               /\ fetch_status'.archived = cyc[c].archived
          /\ SweepReturned(c) =>
               cyc'[c].archived =
                 Cardinality({ i \in DOMAIN papers : papers[i].status # papers'[i].status })
          /\ (cyc[c].pc = "loop" /\ cyc'[c].pc = "loop") =>
               cyc'[c].archived = cyc[c].archived /\ cyc'[c].base = cyc[c].base]_vars

\* The summary of a second cycle: it archived a record, processed three
\* candidates and stored one of them as a new record.
C18_Witness ==
  /\ nextCycle = 2
  /\ cyc[2].pc = "done"
  /\ fetch_status.message = "summary"
  /\ fetch_status.archived >= 1
  /\ fetch_status.processed = 3
  /\ fetch_status.new = 1

(* ============ C19: the pick toggle ===================================== *)

\* The step is the write half of pick_paper.
ToggleStep == req.op = "pick" /\ req'.op = "none" /\ ~exited'

\* What one whole toggle does to a store, with nothing running in between.
Toggle(ps, id) ==
  LET found == id \in FindAll(ps, 10000) IN
  PickToggle(ps, id, found, found /\ ps[id].is_picked)

====
